---- MODULE Spec2Model ----
(***************************************************************************)
(* Exchange monitor: the fetch scheduler (services/dataFetcherService.ts), *)
(* the snapshot cache it owns, the selection pointers written by the HTTP  *)
(* layer (routes/exchange.routes.ts, index.ts) and the failure behaviour   *)
(* of the exchange clients (exchanges/binance.client.ts, bybit.client.ts). *)
(*                                                                         *)
(* Times are milliseconds, as Date.now().  An ExchangeData is abstracted   *)
(* to [positions, summary]: the fresh payload number v served by the       *)
(* exchange normalises to positions <<v>> and summary v; the empty list    *)
(* and the zeroed summary of the constructors are <<>> and 0.              *)
(*                                                                         *)
(* Spec      the program as written: startDataFetcher registers the three  *)
(*           clients, fetches every key once, then only logs.              *)
(* FairSpec  Spec with weak fairness on startDataFetcher and the exchange.  *)
(* SpecSched fetchExchangeData called tick after tick for one registered   *)
(*           client, whose getExchangeData promise resolves or rejects.    *)
(* SpecClient one getExchangeData of a client, request by request.         *)
(* SpecHealth getHealthStatus applied to what the scheduler has recorded.  *)
(* SpecCalc  the normalisation of the responses into an ExchangeData.      *)
(* SpecHttp  the set-current route and the queries on a filled cache.      *)
(* SpecWs    the reconnect logic of the WebSocketService.                  *)
(***************************************************************************)
EXTENDS Integers, Sequences, FiniteSets, TLC

VARIABLES
    now,             \* Date.now()
    pc,              \* position of startDataFetcher / of the tick driver
    idx,             \* index into KeyOrder of the client being initialized / key being fetched
    exchangeClients, \* key -> class of the registered client, or NoClient
    lastValidData,   \* key -> the client's lastValidData field
    exchanges,       \* cachedData.exchanges: key -> <<>> (absent) or <<ExchangeData>>
    currentExchange, \* cachedData.currentExchange
    currentAccount,  \* cachedData.currentAccount
    lastFetchTimes,  \* key -> Undefined or timestamp
    errorCounts,     \* key -> Undefined or count
    backoffTimes,    \* key -> Undefined or timestamp
    inflight,        \* keys whose client.getExchangeData() is awaited
    event,           \* last line logged / last response sent
    requests,        \* sub-request of the running getExchangeData -> its status
    clientPc,        \* position of the running getExchangeData
    input,           \* raw responses handed to the normalisation
    output,          \* <<>> or <<the ExchangeData computed from input>>
    reconnectAttempts, \* WebSocketService.reconnectAttempts
    timers,          \* exchange -> pending setTimeout callbacks of handleReconnect
    sockets,         \* exchange -> number of WebSocket objects connecting and open
    keepAlive,       \* the listen-key keep-alive interval is registered
    wsPc             \* position of WebSocketService.connect

vars == <<now, pc, idx, exchangeClients, lastValidData, exchanges, currentExchange,
          currentAccount, lastFetchTimes, errorCounts, backoffTimes, inflight, event,
          requests, clientPc, input, output, reconnectAttempts, timers, sockets,
          keepAlive, wsPc>>

\* the state of the scheduler and of the cache
schedVars == <<now, pc, idx, exchangeClients, exchanges, currentExchange, currentAccount,
               lastFetchTimes, errorCounts, backoffTimes, inflight>>

\* the state inside one client call and inside the normalisation
clientVars == <<requests, clientPc>>
calcVars == <<input, output>>

\* the state of the WebSocketService
wsVars == <<reconnectAttempts, timers, sockets, keepAlive, wsPc>>

----
\* Bounds of the model

MaxPayload == 2
StartTime == 1000
ClockStep == 7000000
MaxNow == 7700000
MaxErrors == 12
HealthNow == 1000000
MaxPositions == 2
MaxSockets == 2
MaxTimers == 2

----
\* Program constants

MAX_CONSECUTIVE_ERRORS == 5
INITIAL_BACKOFF == 60000
BackoffExponentCap == 5

availableExchanges == {"binance", "bybit"}

availableAccounts ==
    [e \in availableExchanges |->
        IF e = "binance" THEN {"futures", "portfolioMargin"} ELSE {"unified"}]

\* Registration order of initializeExchangeClients, which is also the order of
\* Object.keys in the loops of startDataFetcher.
KeyOrder == << <<"binance", "futures">>, <<"binance", "portfolioMargin">>, <<"bybit", "unified">> >>

Keys == {KeyOrder[i] : i \in 1..Len(KeyOrder)}

ClientClass(k) == IF k[1] = "binance" THEN "BinanceClient" ELSE "BybitClient"

NoClient == "none"
Rejecting == "rejecting"
Undefined == -1

Payloads == 1..MaxPayload
\* What the exchange does with the requests of one getExchangeData: all
\* answered ("ok"), a signed request fails ("fail"), the positions payload has
\* not the expected shape ("badshape"), or only a public lookup fails, the
\* funding rates or a balance/price lookup ("auxfail")
Outcomes == {"ok", "fail", "badshape", "auxfail"}

\* lastValidData as set by the constructors of BinanceClient and BybitClient
DefaultData == [positions |-> <<>>, summary |-> 0]

FreshData(v) == [positions |-> <<v>>, summary |-> v]

\* positions payload without the expected shape: processPositions (Binance)
\* catches and returns [], getPositions (Bybit) reads `list || []`
EmptyPositionsData(v) == [positions |-> <<>>, summary |-> v]

\* a lookup failed and was swallowed: getFundingRates (Binance) returns [],
\* calculateTotalUSDTBalance (Bybit) and getAssetPrice (Binance) return 0, and
\* the fresh positions are stored with the defaulted values
PartialData(v) == [positions |-> <<v>>, summary |-> 0]

\* The requests of one getExchangeData
SubRequests == {"accountInfo", "positions", "openOrders", "fundingRates"}

\* nothing handed to the normalisation
NoInput == [variant |-> <<"", "">>, raws |-> <<>>, equity |-> 0, maintenance |-> 0]

Min(a, b) == IF a < b THEN a ELSE b

RECURSIVE Pow2(_)
Pow2(n) == IF n <= 0 THEN 1 ELSE 2 * Pow2(n - 1)

----
\* Exchange clients

\* Does client.getExchangeData() reject?  BinanceClient and BybitClient wrap
\* their whole body in try/catch and return lastValidData from the catch.
ClientRejects(class, o) ==
    /\ class = Rejecting
    /\ o # "ok"

\* Value client.getExchangeData() resolves with
ClientData(class, last, o, v) ==
    CASE o = "ok" -> FreshData(v)
      [] o = "badshape" -> EmptyPositionsData(v)
      [] o = "auxfail" -> PartialData(v)
      [] OTHER -> last

\* this.lastValidData after getExchangeData
ClientLastValid(class, last, o, v) ==
    CASE o = "ok" -> FreshData(v)
      [] o = "badshape" -> EmptyPositionsData(v)
      [] o = "auxfail" -> PartialData(v)
      [] OTHER -> last

----
\* Scheduler

\* `x || 0` of getHealthStatus, `!x` of fetchExchangeData
OrZero(x) == IF x = Undefined THEN 0 ELSE x

\* the exponent capped one step early
BackoffDelay_CapAt960(n) ==
    INITIAL_BACKOFF * Pow2(Min(n - MAX_CONSECUTIVE_ERRORS, BackoffExponentCap - 1))

BackoffDelay(n) ==
    INITIAL_BACKOFF * Pow2(Min(n - MAX_CONSECUTIVE_ERRORS, BackoffExponentCap))

\* the instant the backoff ends still counted as backoff
InBackoff_Inclusive(k) == backoffTimes[k] >= now

\* backoffTimes[exchange][accountId] > Date.now()
InBackoff(k) == backoffTimes[k] > now

\* An event: what was done, for which key or request, with which result;
\* rows is the payload received or the rows answered, n the error count
\* the key had when its fetch completed.
EvN(op, k, res, rows, n) == [op |-> op, key |-> k, res |-> res, rows |-> rows, n |-> n]

Ev(op, k, res, rows) == EvN(op, k, res, rows, 0)

NoKey == <<"", "">>

\* Who may call fetchExchangeData(k) now: the loop of startDataFetcher at k,
\* or the tick driver.
MayCall(k) ==
    /\ inflight = {}
    /\ \/ pc = "fetch" /\ k = KeyOrder[idx]
       \/ pc = "tick"

\* fetchExchangeData(k) has returned: the loop of startDataFetcher moves on
Returned ==
    IF pc = "fetch"
    THEN IF idx < Len(KeyOrder)
         THEN pc' = pc /\ idx' = idx + 1
         ELSE pc' = "running" /\ idx' = idx
    ELSE UNCHANGED <<pc, idx>>

\* WebSocketService before connect(): the field initialisers of the class
WsExchanges == {"binance", "bybit"}

WsInit ==
    /\ reconnectAttempts = [x \in WsExchanges |-> 0]
    /\ timers = [x \in WsExchanges |-> 0]
    /\ sockets = [x \in WsExchanges |-> [connecting |-> 0, open |-> 0]]
    /\ keepAlive = FALSE
    /\ wsPc = "binance"

Init ==
    /\ now = StartTime
    /\ pc = "init"
    /\ idx = 1
    /\ exchangeClients = [k \in Keys |-> NoClient]
    /\ lastValidData = [k \in Keys |-> DefaultData]
    /\ exchanges = [k \in Keys |-> <<>>]
    /\ currentExchange = "binance"
    /\ currentAccount = "futures"
    /\ lastFetchTimes = [k \in Keys |-> Undefined]
    /\ errorCounts = [k \in Keys |-> Undefined]
    /\ backoffTimes = [k \in Keys |-> Undefined]
    /\ inflight = {}
    /\ event = Ev("start", NoKey, "", <<>>)
    /\ requests = [r \in SubRequests |-> "unsent"]
    /\ clientPc = "idle"
    /\ input = NoInput
    /\ output = <<>>
    /\ WsInit

\* a failed initialize() skipped: the clients after it are still registered
InitializeClient_SkipsFailed ==
    /\ pc = "init"
    /\ LET k == KeyOrder[idx] IN
       \/ /\ exchangeClients' = [exchangeClients EXCEPT ![k] = ClientClass(k)]
          /\ lastValidData' = [lastValidData EXCEPT ![k] = DefaultData]
          /\ event' = Ev("initialized", k, "ok", <<>>)
       \/ /\ event' = Ev("initialized", k, "error", <<>>)
          /\ UNCHANGED <<exchangeClients, lastValidData>>
    /\ IF idx < Len(KeyOrder)
       THEN pc' = pc /\ idx' = idx + 1
       ELSE pc' = "fetch" /\ idx' = 1
    /\ UNCHANGED <<now, exchanges, currentExchange, currentAccount, lastFetchTimes,
                   errorCounts, backoffTimes, inflight>>
    /\ UNCHANGED <<clientVars, calcVars, wsVars>>

\* initializeExchangeClients: one `await client.initialize()` and the registration after it
InitializeClient ==
    /\ pc = "init"
    /\ LET k == KeyOrder[idx] IN
       \/ /\ exchangeClients' = [exchangeClients EXCEPT ![k] = ClientClass(k)]
          /\ lastValidData' = [lastValidData EXCEPT ![k] = DefaultData]
          /\ IF idx < Len(KeyOrder)
             THEN pc' = pc /\ idx' = idx + 1
             ELSE pc' = "fetch" /\ idx' = 1
          /\ event' = Ev("initialized", k, "ok", <<>>)
       \/ /\ pc' = "failed"
          /\ event' = Ev("initialized", k, "error", <<>>)
          /\ UNCHANGED <<idx, exchangeClients, lastValidData>>
    /\ UNCHANGED <<now, exchanges, currentExchange, currentAccount, lastFetchTimes,
                   errorCounts, backoffTimes, inflight>>
    /\ UNCHANGED <<clientVars, calcVars, wsVars>>

\* fetchExchangeData up to its await: no client, backoff skip, or the call of the client
FetchCall(k) ==
    /\ MayCall(k)
    /\ IF exchangeClients[k] = NoClient
       THEN /\ event' = Ev("noClient", k, "", <<>>)
            /\ Returned
            /\ UNCHANGED inflight
       ELSE IF InBackoff(k)
       THEN /\ event' = Ev("skip", k, "", <<>>)
            /\ Returned
            /\ UNCHANGED inflight
       ELSE /\ event' = Ev("fetching", k, "", <<>>)
            /\ inflight' = inflight \cup {k}
            /\ UNCHANGED <<pc, idx>>
    /\ UNCHANGED <<now, exchangeClients, lastValidData, exchanges, currentExchange,
                   currentAccount, lastFetchTimes, errorCounts, backoffTimes>>
    /\ UNCHANGED <<clientVars, calcVars, wsVars>>

\* the success branch assigning a new object for the whole exchange
FetchResolve_ReplacesExchange(k) ==
    /\ k \in inflight
    /\ \E o \in Outcomes, v \in Payloads :
        /\ ~ClientRejects(exchangeClients[k], o)
        /\ exchanges' = [j \in Keys |->
               IF j = k THEN <<ClientData(exchangeClients[k], lastValidData[k], o, v)>>
               ELSE IF j[1] = k[1] THEN <<>>
               ELSE exchanges[j]]
        /\ lastValidData' = [lastValidData EXCEPT
               ![k] = ClientLastValid(exchangeClients[k], lastValidData[k], o, v)]
        /\ event' = EvN("resolved", k, o, IF o = "fail" THEN <<>> ELSE <<v>>,
                        OrZero(errorCounts[k]))
    /\ lastFetchTimes' = [lastFetchTimes EXCEPT ![k] = now]
    /\ errorCounts' = [errorCounts EXCEPT ![k] = 0]
    /\ backoffTimes' = [backoffTimes EXCEPT ![k] = 0]
    /\ inflight' = inflight \ {k}
    /\ Returned
    /\ UNCHANGED <<now, exchangeClients, currentExchange, currentAccount>>
    /\ UNCHANGED <<clientVars, calcVars, wsVars>>

\* the success branch without the reset of the backoff
FetchResolve_KeepsBackoff(k) ==
    /\ k \in inflight
    /\ \E o \in Outcomes, v \in Payloads :
        /\ ~ClientRejects(exchangeClients[k], o)
        /\ exchanges' = [exchanges EXCEPT
               ![k] = <<ClientData(exchangeClients[k], lastValidData[k], o, v)>>]
        /\ lastValidData' = [lastValidData EXCEPT
               ![k] = ClientLastValid(exchangeClients[k], lastValidData[k], o, v)]
        /\ event' = EvN("resolved", k, o, IF o = "fail" THEN <<>> ELSE <<v>>,
                        OrZero(errorCounts[k]))
    /\ lastFetchTimes' = [lastFetchTimes EXCEPT ![k] = now]
    /\ errorCounts' = [errorCounts EXCEPT ![k] = 0]
    /\ inflight' = inflight \ {k}
    /\ Returned
    /\ UNCHANGED <<now, exchangeClients, currentExchange, currentAccount, backoffTimes>>
    /\ UNCHANGED <<clientVars, calcVars, wsVars>>

\* client.getExchangeData() resolved: the success branch of fetchExchangeData
FetchResolve(k) ==
    /\ k \in inflight
    /\ \E o \in Outcomes, v \in Payloads :
        /\ ~ClientRejects(exchangeClients[k], o)
        /\ exchanges' = [exchanges EXCEPT
               ![k] = <<ClientData(exchangeClients[k], lastValidData[k], o, v)>>]
        /\ lastValidData' = [lastValidData EXCEPT
               ![k] = ClientLastValid(exchangeClients[k], lastValidData[k], o, v)]
        /\ event' = EvN("resolved", k, o, IF o = "fail" THEN <<>> ELSE <<v>>,
                        OrZero(errorCounts[k]))
    /\ lastFetchTimes' = [lastFetchTimes EXCEPT ![k] = now]
    /\ errorCounts' = [errorCounts EXCEPT ![k] = 0]
    /\ backoffTimes' = [backoffTimes EXCEPT ![k] = 0]
    /\ inflight' = inflight \ {k}
    /\ Returned
    /\ UNCHANGED <<now, exchangeClients, currentExchange, currentAccount>>
    /\ UNCHANGED <<clientVars, calcVars, wsVars>>

\* client.getExchangeData() rejected: the catch branch of fetchExchangeData
FetchReject(k) ==
    /\ k \in inflight
    /\ OrZero(errorCounts[k]) < MaxErrors
    /\ \E o \in Outcomes :
        /\ ClientRejects(exchangeClients[k], o)
        /\ event' = EvN("rejected", k, o, <<>>, OrZero(errorCounts[k]))
    /\ LET n == OrZero(errorCounts[k]) + 1 IN
        /\ errorCounts' = [errorCounts EXCEPT ![k] = n]
        /\ backoffTimes' =
              IF n >= MAX_CONSECUTIVE_ERRORS
              THEN [backoffTimes EXCEPT ![k] = now + BackoffDelay(n)]
              ELSE backoffTimes
    /\ inflight' = inflight \ {k}
    /\ Returned
    /\ UNCHANGED <<now, exchangeClients, lastValidData, exchanges, currentExchange,
                   currentAccount, lastFetchTimes>>
    /\ UNCHANGED <<clientVars, calcVars, wsVars>>

\* the setInterval callback of startDataFetcher: logAccountMetrics only
LogMetrics ==
    /\ pc = "running"
    /\ event' = Ev("metrics", NoKey, "", <<>>)
    /\ UNCHANGED <<now, pc, idx, exchangeClients, lastValidData, exchanges, currentExchange,
                   currentAccount, lastFetchTimes, errorCounts, backoffTimes, inflight>>
    /\ UNCHANGED <<clientVars, calcVars, wsVars>>

\* Time passes: by one step, or up to the end of a running backoff
AdvanceClock ==
    /\ \E t \in {now + ClockStep} \cup {backoffTimes[k] : k \in Keys} :
        /\ t > now
        /\ t <= MaxNow
        /\ now' = t
    /\ event' = Ev("clock", NoKey, "", <<>>)
    /\ UNCHANGED <<pc, idx, exchangeClients, lastValidData, exchanges, currentExchange,
                   currentAccount, lastFetchTimes, errorCounts, backoffTimes, inflight>>
    /\ UNCHANGED <<clientVars, calcVars, wsVars>>

----
\* HTTP layer

ReqExchanges == availableExchanges \cup {"unknown"}
ReqAccounts == {"futures", "portfolioMargin", "unified", "x"}

\* a request field that is absent (falsy in `target.exchange || data.currentExchange`)
Omitted == ""

\* fields of a 'positions' target: absent or explicit
QueryExchanges == {Omitted, "bybit"}
QueryAccounts == {Omitted, "unified"}

\* data.exchanges[exchange]?.[account]?.positions || []
CachedPositions(e, a) ==
    IF <<e, a>> \in Keys /\ exchanges[<<e, a>>] # <<>>
    THEN exchanges[<<e, a>>][1].positions
    ELSE <<>>

\* the account validated against the accounts of every exchange
ValidSelection_AnyAccount(e, a) ==
    /\ e \in availableExchanges
    /\ a \in UNION {availableAccounts[x] : x \in availableExchanges}

\* the account not validated
ValidSelection_ExchangeOnly(e, a) == e \in availableExchanges

ValidSelection(e, a) ==
    /\ e \in availableExchanges
    /\ a \in availableAccounts[e]

setCurrentExchangeAndAccount(e, a) ==
    /\ IF ValidSelection(e, a)
       THEN /\ currentExchange' = e
            /\ currentAccount' = a
            /\ event' = Ev("setCurrent", <<e, a>>, "ok", <<>>)
       ELSE /\ event' = Ev("setCurrent", <<e, a>>, "error", <<>>)
            /\ UNCHANGED <<currentExchange, currentAccount>>
    /\ UNCHANGED <<now, pc, idx, exchangeClients, lastValidData, exchanges, lastFetchTimes,
                   errorCounts, backoffTimes, inflight>>
    /\ UNCHANGED <<clientVars, calcVars, wsVars>>

SetCurrent == \E e \in ReqExchanges, a \in ReqAccounts : setCurrentExchangeAndAccount(e, a)

\* router.post('/set-current') of routes/exchange.routes.ts: the status of the
\* answer. The handler is synchronous and has no try/catch, so the Error of
\* setCurrentExchangeAndAccount reaches the error handling middleware of
\* index.ts, which answers 500.
SetCurrentStatus(e, a) ==
    IF e = Omitted \/ a = Omitted THEN "400"
    ELSE IF ValidSelection(e, a) THEN "200"
    ELSE "500"

PostSetCurrent(e, a) ==
    /\ IF SetCurrentStatus(e, a) = "200"
       THEN /\ currentExchange' = e
            /\ currentAccount' = a
       ELSE UNCHANGED <<currentExchange, currentAccount>>
    /\ event' = Ev("postSetCurrent", <<e, a>>, SetCurrentStatus(e, a), <<>>)
    /\ UNCHANGED <<now, pc, idx, exchangeClients, lastValidData, exchanges, lastFetchTimes,
                   errorCounts, backoffTimes, inflight>>
    /\ UNCHANGED <<clientVars, calcVars, wsVars>>

\* fields of the body of a set-current request: absent, valid or not available
BodyExchanges == {Omitted, "bybit", "unknown"}
BodyAccounts == {Omitted, "unified", "futures"}

SetCurrentRoute == \E e \in BodyExchanges, a \in BodyAccounts : PostSetCurrent(e, a)

\* router.post('/query') of routes/exchange.routes.ts, one 'positions' target
RouterQueryRows(e, a) ==
    CachedPositions(IF e = Omitted THEN currentExchange ELSE e,
                    IF a = Omitted THEN currentAccount ELSE a)

RouterQuery ==
    /\ \E e \in QueryExchanges, a \in QueryAccounts :
        event' = Ev("routerQuery", <<e, a>>, "200", RouterQueryRows(e, a))
    /\ UNCHANGED <<now, pc, idx, exchangeClients, lastValidData, exchanges, currentExchange,
                   currentAccount, lastFetchTimes, errorCounts, backoffTimes, inflight>>
    /\ UNCHANGED <<clientVars, calcVars, wsVars>>

\* app.post('/query') of index.ts, one 'positions' target
AppQueryRows(e, a) == CachedPositions(e, a)

AppQuery ==
    /\ \E e \in QueryExchanges, a \in QueryAccounts :
        event' = Ev("appQuery", <<e, a>>, "200", AppQueryRows(e, a))
    /\ UNCHANGED <<now, pc, idx, exchangeClients, lastValidData, exchanges, currentExchange,
                   currentAccount, lastFetchTimes, errorCounts, backoffTimes, inflight>>
    /\ UNCHANGED <<clientVars, calcVars, wsVars>>

----
\* The program: index.ts calls startDataFetcher once; requests arrive at any time

Fetch == \E k \in Keys : FetchCall(k)
Resolve == \E k \in Keys : FetchResolve(k)
Reject == \E k \in Keys : FetchReject(k)

Next ==
    \/ InitializeClient
    \/ Fetch
    \/ Resolve
    \/ LogMetrics
    \/ AdvanceClock
    \/ SetCurrent
    \/ RouterQuery
    \/ AppQuery

Spec == Init /\ [][Next]_vars

\* startDataFetcher is not starved and the exchange answers every request
FairSpec == Spec /\ WF_vars(InitializeClient) /\ WF_vars(Fetch) /\ WF_vars(Resolve)

----
\* The scheduler alone: fetchExchangeData called on every tick for any key,
\* one client registered, whose promise resolves or rejects.

InitSched ==
    /\ now = StartTime
    /\ pc = "tick"
    /\ idx = 1
    /\ \E k \in Keys :
        \E class \in {ClientClass(k), Rejecting} :
            exchangeClients = [j \in Keys |-> IF j = k THEN class ELSE NoClient]
    /\ lastValidData = [k \in Keys |-> DefaultData]
    /\ exchanges = [k \in Keys |-> <<>>]
    /\ currentExchange = "binance"
    /\ currentAccount = "futures"
    /\ lastFetchTimes = [k \in Keys |-> Undefined]
    /\ errorCounts = [k \in Keys |-> Undefined]
    /\ backoffTimes = [k \in Keys |-> Undefined]
    /\ inflight = {}
    /\ event = Ev("start", NoKey, "", <<>>)
    /\ requests = [r \in SubRequests |-> "unsent"]
    /\ clientPc = "idle"
    /\ input = NoInput
    /\ output = <<>>
    /\ WsInit

NextSched ==
    \/ Fetch
    \/ Resolve
    \/ Reject
    \/ AdvanceClock

SpecSched == InitSched /\ [][NextSched]_vars

----
\* The health view: getHealthStatus, served by GET /health

HealthyWindow == 300000

Null == -2

\* Math.round(ms / 1000), ms >= 0
RoundSeconds(ms) == (ms + 500) \div 1000

\* healthy as soon as the key was fetched once, however long ago
HealthOf_NoAgeLimit(k) ==
    LET lastFetch == OrZero(lastFetchTimes[k]) IN
    [healthy |-> lastFetch > 0,
     lastFetch |-> IF lastFetch # 0 THEN lastFetch ELSE Null,
     timeSinceLastFetch |-> IF lastFetch # 0 THEN RoundSeconds(now - lastFetch) ELSE Null,
     inBackoff |-> InBackoff(k),
     backoffEnds |-> IF InBackoff(k) THEN backoffTimes[k] ELSE Null,
     errorCount |-> OrZero(errorCounts[k])]

\* the entry of getHealthStatus for one registered key
HealthOf(k) ==
    LET lastFetch == OrZero(lastFetchTimes[k])
        timeSinceLastFetch == now - lastFetch
    IN
    [healthy |-> lastFetch > 0 /\ timeSinceLastFetch < HealthyWindow,
     lastFetch |-> IF lastFetch # 0 THEN lastFetch ELSE Null,
     timeSinceLastFetch |-> IF lastFetch # 0 THEN RoundSeconds(timeSinceLastFetch) ELSE Null,
     inBackoff |-> InBackoff(k),
     backoffEnds |-> IF InBackoff(k) THEN backoffTimes[k] ELSE Null,
     errorCount |-> OrZero(errorCounts[k])]

\* the keys of exchangeClients
Registered == {k \in Keys : exchangeClients[k] # NoClient}

GetHealthStatus ==
    /\ event' = Ev("health", NoKey, "200", [k \in Registered |-> HealthOf(k)])
    /\ UNCHANGED <<schedVars, lastValidData, clientVars, calcVars, wsVars>>

\* What the scheduler can have recorded for a key at time HealthNow, as
\* <<lastFetchTimes, errorCounts, backoffTimes>>: never attempted; fetched 10s,
\* just under 300s, 300s or 400s ago; failing since, in backoff or at the
\* instant the backoff ends; never fetched and failing.
Histories ==
    {<<Undefined, Undefined, Undefined>>,
     <<HealthNow - 10000, 0, 0>>,
     <<HealthNow - (HealthyWindow - 1), 0, 0>>,
     <<HealthNow - HealthyWindow, 0, 0>>,
     <<HealthNow - 400000, 0, 0>>,
     <<HealthNow - 10000, 5, HealthNow + INITIAL_BACKOFF>>,
     <<HealthNow - 400000, 6, HealthNow>>,
     <<Undefined, 3, Undefined>>,
     <<Undefined, 5, HealthNow + INITIAL_BACKOFF>>}

\* the state at some later time: the first clients registered (all of them
\* unless an initialize() failed), each with some history
InitHealth ==
    /\ now = HealthNow
    /\ idx = 1
    /\ \E i \in 0..Len(KeyOrder) :
        /\ exchangeClients =
              [k \in Keys |-> IF \E j \in 1..i : KeyOrder[j] = k
                              THEN ClientClass(k) ELSE NoClient]
        /\ pc = IF i = Len(KeyOrder) THEN "running" ELSE "failed"
    /\ \E h \in [Keys -> Histories] :
        /\ \A k \in Keys : exchangeClients[k] = NoClient => h[k] = <<Undefined, Undefined, Undefined>>
        /\ lastFetchTimes = [k \in Keys |-> h[k][1]]
        /\ errorCounts = [k \in Keys |-> h[k][2]]
        /\ backoffTimes = [k \in Keys |-> h[k][3]]
    /\ lastValidData = [k \in Keys |-> DefaultData]
    /\ exchanges = [k \in Keys |-> <<>>]
    /\ currentExchange = "binance"
    /\ currentAccount = "futures"
    /\ inflight = {}
    /\ event = Ev("start", NoKey, "", <<>>)
    /\ requests = [r \in SubRequests |-> "unsent"]
    /\ clientPc = "idle"
    /\ input = NoInput
    /\ output = <<>>
    /\ WsInit

NextHealth == GetHealthStatus

SpecHealth == InitHealth /\ [][NextHealth]_vars

----
\* One exchange client: getExchangeData at the level of its requests.  A
\* request is "unsent", "pending", "done" or "failed".

\* the requests joined by the Promise.all of getExchangeData
Joined == {"accountInfo", "positions", "openOrders"}

Settled(r) == requests[r] \in {"done", "failed"}

\* What the call amounts to, once its requests are settled: a failed signed
\* request rejects the join; BinanceClient.getFundingRates swallows its
\* failure, BybitClient.getFundingRates does not
OutcomeOf(class) ==
    IF \E r \in Joined : requests[r] = "failed" THEN "fail"
    ELSE IF requests["fundingRates"] = "done" THEN "ok"
    ELSE IF class = "BinanceClient" THEN "auxfail"
    ELSE "fail"

\* client.getExchangeData() is entered: BinanceClient first awaits syncTime()
GetExchangeData(k) ==
    /\ exchangeClients[k] # NoClient
    /\ clientPc \in {"idle", "returned"}
    /\ requests' = [r \in SubRequests |-> "unsent"]
    /\ clientPc' = IF exchangeClients[k] = "BinanceClient" THEN "syncTime" ELSE "issue"
    /\ event' = Ev("getExchangeData", k, "", <<>>)
    /\ UNCHANGED <<schedVars, lastValidData, calcVars, wsVars>>

\* syncTime() returns, whether the time request succeeded or not
SyncTime(k) ==
    /\ exchangeClients[k] # NoClient
    /\ clientPc = "syncTime"
    /\ clientPc' = "issue"
    /\ event' = Ev("syncTime", k, "", <<>>)
    /\ UNCHANGED <<schedVars, lastValidData, requests, calcVars, wsVars>>

\* Promise.all([getAccountInfo(), getPositions(), getOpenOrders()]): the three
\* calls are made one after the other without an await in between
IssueRequests(k) ==
    /\ exchangeClients[k] # NoClient
    /\ clientPc = "issue"
    /\ requests' = [r \in SubRequests |-> IF r \in Joined THEN "pending" ELSE requests[r]]
    /\ clientPc' = "join"
    /\ event' = Ev("issued", k, "", <<>>)
    /\ UNCHANGED <<schedVars, lastValidData, calcVars, wsVars>>

\* the exchange answers one pending request, or the request fails
Answer(k) ==
    /\ exchangeClients[k] # NoClient
    /\ \E r \in SubRequests, st \in {"done", "failed"} :
        /\ requests[r] = "pending"
        /\ requests' = [requests EXCEPT ![r] = st]
        /\ event' = Ev("answered", k, r, <<>>)
    /\ UNCHANGED <<schedVars, lastValidData, clientPc, calcVars, wsVars>>

\* the await of the Promise.all returns: with the three results, and then the
\* funding rates are requested, or with the first rejection, and then the
\* catch returns lastValidData
Join(k) ==
    /\ exchangeClients[k] # NoClient
    /\ clientPc = "join"
    /\ IF \E r \in Joined : requests[r] = "failed"
       THEN /\ clientPc' = "returned"
            /\ event' = Ev("returned", k, "fail", <<>>)
            /\ UNCHANGED requests
       ELSE /\ \A r \in Joined : requests[r] = "done"
            /\ requests' = [requests EXCEPT !["fundingRates"] = "pending"]
            /\ clientPc' = "funding"
            /\ event' = Ev("joined", k, "", <<>>)
    /\ UNCHANGED <<schedVars, lastValidData, calcVars, wsVars>>

\* the await of getFundingRates() returns: processPositions and
\* processAccountSummary run, lastValidData is assigned and returned; when
\* BybitClient.getFundingRates rejected, the catch returns lastValidData
Normalize(k) ==
    /\ exchangeClients[k] # NoClient
    /\ clientPc = "funding"
    /\ Settled("fundingRates")
    /\ \E v \in Payloads :
        LET o == OutcomeOf(exchangeClients[k]) IN
        /\ lastValidData' = [lastValidData EXCEPT
               ![k] = ClientLastValid(exchangeClients[k], lastValidData[k], o, v)]
        /\ event' = Ev(IF o = "fail" THEN "returned" ELSE "normalized", k, o,
                       IF o = "fail" THEN <<>> ELSE <<v>>)
    /\ clientPc' = "returned"
    /\ UNCHANGED <<schedVars, requests, calcVars, wsVars>>

ClientCall == \E k \in Keys : GetExchangeData(k)
ClientSync == \E k \in Keys : SyncTime(k)
ClientIssue == \E k \in Keys : IssueRequests(k)
ClientAnswer == \E k \in Keys : Answer(k)
ClientJoin == \E k \in Keys : Join(k)
ClientNormalize == \E k \in Keys : Normalize(k)

\* one registered client of the repository, called again and again
InitClient ==
    /\ now = StartTime
    /\ pc = "tick"
    /\ idx = 1
    /\ \E k \in Keys :
        exchangeClients = [j \in Keys |-> IF j = k THEN ClientClass(k) ELSE NoClient]
    /\ lastValidData = [k \in Keys |-> DefaultData]
    /\ exchanges = [k \in Keys |-> <<>>]
    /\ currentExchange = "binance"
    /\ currentAccount = "futures"
    /\ lastFetchTimes = [k \in Keys |-> Undefined]
    /\ errorCounts = [k \in Keys |-> Undefined]
    /\ backoffTimes = [k \in Keys |-> Undefined]
    /\ inflight = {}
    /\ event = Ev("start", NoKey, "", <<>>)
    /\ requests = [r \in SubRequests |-> "unsent"]
    /\ clientPc = "idle"
    /\ input = NoInput
    /\ output = <<>>
    /\ WsInit

NextClient ==
    \/ ClientCall
    \/ ClientSync
    \/ ClientIssue
    \/ ClientAnswer
    \/ ClientJoin
    \/ ClientNormalize

SpecClient == InitClient /\ [][NextClient]_vars

----
\* The normalisation: processPositions and processAccountSummary of
\* BinanceClient, mapPosition and the summary part of getExchangeData of
\* BybitClient.  Numbers are in hundredths (1234 is 12.34), the precision of
\* toFixed(2), percentages likewise (10000 is 100.00%); amounts and sizes of
\* positions are in thousandths, the precision of the exchanges' quantities.

\* x.toFixed(2) of the quotient a / b, b > 0: the nearest hundredth, a tie
\* going away from zero
RoundDiv(a, b) ==
    IF a >= 0 THEN (2 * a + b) \div (2 * b) ELSE -((2 * (-a) + b) \div (2 * b))

Abs(x) == IF x < 0 THEN -x ELSE x

RECURSIVE GCD(_, _)
GCD(a, b) == IF b = 0 THEN a ELSE GCD(b, a % b)

\* scale * a / b to the nearest integer, b > 0; the fraction is reduced first
\* to keep the products small
RoundRatio(a, b, scale) ==
    LET g == GCD(Abs(a), b) IN RoundDiv((a \div g) * scale, b \div g)

\* the fraction a / b in lowest terms, b > 0
Fraction(a, b) == LET g == GCD(Abs(a), b) IN <<a \div g, b \div g>>

RECURSIVE Sum(_)
Sum(q) == IF q = <<>> THEN 0 ELSE Head(q) + Sum(Tail(q))

\* A JavaScript number that may not be finite
Finite(x) == [kind |-> "finite", value |-> x]
NaN == [kind |-> "NaN", value |-> 0]
Infinity == [kind |-> "Infinity", value |-> 0]

\* a / b * 100 with toFixed(2), a >= 0 and b >= 0, as JavaScript evaluates it
PercentOf(a, b) ==
    IF b # 0 THEN Finite(RoundDiv(a * 10000, b))
    ELSE IF a = 0 THEN NaN
    ELSE Infinity

\* Raw position records, as the exchange serves them.  amt is the signed
\* amount in thousandths (exchanges quote quantities with three decimals), mark,
\* entry, liq (the liquidation price of the source, 0 when it gives none) and
\* lev are in hundredths, coinM says whether the symbol is a COIN-M one
\* (contains '_'), margin is the native margin flag: marginType of Binance;
\* for Bybit "cross" stands for tradeMode 0, "isolated" for tradeMode 1.
RawAmounts == {-3000, 0, 50, 1000}
RawMarkPrices == {2555, 100000}
RawLeverages == {500, 1000}

\* the records of a position list
RawPositions ==
    [amt : RawAmounts, mark : RawMarkPrices, lev : RawLeverages, coinM : BOOLEAN,
     entry : {100000}, liq : {0}, margin : {"cross"}]

\* the records of a single position, in more detail: an amount below half a
\* hundredth, entry prices on both sides of the mark price, a source with and
\* without liquidation price, a margin flag the clients do not know
DetailedAmounts == {-3000, -500, 4, 1000}
DetailedLiqPrices == {0, 90000}
DetailedEntryPrices == {95000, 110000}
MarginFlags == {"cross", "isolated", "portfolio"}

DetailedPositions ==
    [amt : DetailedAmounts, mark : {100000}, lev : RawLeverages, coinM : BOOLEAN,
     entry : DetailedEntryPrices, liq : DetailedLiqPrices, margin : MarginFlags]

\* account totals of the account-info response
Equities == {0, 5000, 100000}
MaintenanceMargins == {0, 10000}

SeqsUpTo(S, n) == UNION {[1..m -> S] : m \in 0..n}

\* Number(positionAmt.toFixed(2)), in hundredths
PositionSize(raw) == RoundDiv(raw.amt, 10)

\* liquidationPrice === 0 || liquidationPrice < 0.001
NoSourceLiquidationPrice(raw) == raw.liq = 0 \/ raw.liq * 10 < 1

\* The liquidation price of the portfolio-margin branch before rounding, as
\* the fraction <<numerator, denominator>> of hundredths: the price of the
\* source, or the estimate with maintenanceMarginRatio 0.013
PortfolioLiquidationPrice(raw) ==
    LET factor ==
            IF raw.coinM
            THEN IF raw.amt < 0
                 THEN Fraction(1018 * raw.lev + 100000, 1000 * raw.lev)
                 ELSE Fraction(987, 1000)
            ELSE IF raw.amt < 0
                 THEN Fraction(1013 * raw.lev + 100000, 1000 * raw.lev)
                 ELSE Fraction(987 * raw.lev - 100000, 1000 * raw.lev)
    IN
    IF ~NoSourceLiquidationPrice(raw) THEN <<raw.liq, 1>>
    ELSE <<raw.mark * factor[1], factor[2]>>

\* BinanceClient.calculateLiquidationDistance for the price n / d, in
\* hundredths of a percent
BinanceLiquidationDistance(mark, n, d) ==
    IF n = 0 THEN 0 ELSE RoundRatio(Abs(mark * d - n), mark * d, 10000)

\* marginType.toLowerCase() === 'cross' ? 'CROSS' : 'ISOLATED'
BinanceMarginMode(flag) == IF flag = "cross" THEN "CROSS" ELSE "ISOLATED"

\* USDT-M position of the portfolio-margin account
BinanceUsdtPosition(raw) ==
    LET liq == PortfolioLiquidationPrice(raw) IN
    [side |-> IF PositionSize(raw) > 0 THEN "LONG" ELSE "SHORT",
     size |-> 10 * Abs(PositionSize(raw)),
     notionalValue |-> RoundDiv(Abs(PositionSize(raw) * raw.mark), 100),
     markPrice |-> raw.mark,
     leverage |-> raw.lev,
     liquidationPrice |-> RoundDiv(liq[1], liq[2]),
     liquidationPriceChangePercent |-> BinanceLiquidationDistance(raw.mark, liq[1], liq[2]),
     marginMode |-> BinanceMarginMode(raw.margin)]

\* COIN-M position of the portfolio-margin account
BinanceCoinMPosition(raw) ==
    LET liq == PortfolioLiquidationPrice(raw) IN
    [side |-> IF raw.amt > 0 THEN "LONG" ELSE "SHORT",
     size |-> Abs(raw.amt),
     notionalValue |-> RoundDiv(raw.amt * raw.mark, 1000),
     markPrice |-> raw.mark,
     leverage |-> raw.lev,
     liquidationPrice |-> RoundDiv(liq[1], liq[2]),
     liquidationPriceChangePercent |-> BinanceLiquidationDistance(raw.mark, liq[1], liq[2]),
     marginMode |-> BinanceMarginMode(raw.margin)]

\* position of the futures account: the liquidation price is the source's
BinanceFuturesPosition(raw) ==
    [side |-> IF PositionSize(raw) > 0 THEN "LONG" ELSE "SHORT",
     size |-> 10 * Abs(PositionSize(raw)),
     notionalValue |-> RoundDiv(Abs(PositionSize(raw) * raw.mark), 100),
     markPrice |-> raw.mark,
     leverage |-> raw.lev,
     liquidationPrice |-> raw.liq,
     liquidationPriceChangePercent |-> BinanceLiquidationDistance(raw.mark, raw.liq, 1),
     marginMode |-> BinanceMarginMode(raw.margin)]

\* Math.abs(parseFloat(pos.positionAmt)) > 0, parseFloat(pos.size) !== 0
IsNonZero(raw) == Abs(raw.amt) > 0

BinanceProcessPositions(account, raws) ==
    IF account = "portfolioMargin"
    THEN [i \in 1..Len(raws) |->
             IF raws[i].coinM THEN BinanceCoinMPosition(raws[i])
             ELSE BinanceUsdtPosition(raws[i])]
    ELSE LET kept == SelectSeq(raws, IsNonZero) IN
         [i \in 1..Len(kept) |-> BinanceFuturesPosition(kept[i])]

\* BybitClient.calculateLiquidationPrice with availableBalance 0 (a position
\* record has no walletBalance), initialMargin = notionalValue / leverage and
\* maintenanceMargin = 0.4 x initialMargin; size in hundredths
BybitCalculateLiquidationPrice(entry, size, notional, lev, side) ==
    LET perUnit == Fraction(6000 * (notional \div GCD(notional, lev * size)),
                            (lev * size) \div GCD(notional, lev * size))
    IN
    IF size = 0 THEN 0
    ELSE IF side = "LONG"
    THEN RoundDiv(entry * perUnit[2] - perUnit[1], perUnit[2])
    ELSE RoundDiv(entry * perUnit[2] + perUnit[1], perUnit[2])

\* BybitClient.calculateLiquidationDistance
BybitLiquidationDistance(mark, liq, side) ==
    IF liq = 0 THEN 0
    ELSE RoundRatio(IF side = "LONG" THEN liq - mark ELSE mark - liq, mark, 10000)

\* BybitClient.mapPosition: the exchange reports size unsigned, side as
\* Buy / Sell and positionValue, taken here as size x markPrice
BybitMapPosition(raw) ==
    LET size == RoundDiv(Abs(raw.amt), 10)
        side == IF raw.amt > 0 THEN "LONG" ELSE "SHORT"
        notionalValue == RoundDiv(Abs(raw.amt) * raw.mark, 1000)
        liquidationPrice ==
            BybitCalculateLiquidationPrice(raw.entry, size, notionalValue, raw.lev, side)
    IN
    [side |-> side,
     size |-> 10 * size,
     notionalValue |-> notionalValue,
     markPrice |-> raw.mark,
     leverage |-> raw.lev,
     liquidationPrice |-> liquidationPrice,
     liquidationPriceChangePercent |->
         BybitLiquidationDistance(raw.mark, liquidationPrice, side),
     marginMode |-> IF raw.margin = "isolated" THEN "ISOLATED" ELSE "CROSS"]

\* BybitClient.getPositions (the filter) and processPositions
BybitProcessPositions(raws) ==
    LET kept == SelectSeq(raws, IsNonZero) IN
    [i \in 1..Len(kept) |-> BybitMapPosition(kept[i])]

\* Math.min(calculatedBuffer, 100) of both clients
LiquidationBuffer(equity, maintenance) ==
    Min(IF maintenance > 0
        THEN RoundDiv((equity - maintenance) * 10000, maintenance)
        ELSE 0,
        10000)

BinanceProcessAccountSummary(account, equity, maintenance, positions) ==
    LET totalLeverage == Sum([i \in 1..Len(positions) |-> positions[i].leverage]) IN
    [totalNotionalValue |-> Sum([i \in 1..Len(positions) |-> positions[i].notionalValue]),
     accountLeverage |->
         IF Len(positions) > 0 THEN RoundDiv(totalLeverage, Len(positions)) ELSE 0,
     openPositionsCount |-> Len(positions),
     accountMarginRatio |->
         IF account = "futures" THEN PercentOf(maintenance, equity)
         ELSE IF maintenance > 0 /\ equity > 0 THEN PercentOf(maintenance, equity)
         ELSE Finite(0),
     liquidationBuffer |-> LiquidationBuffer(equity, maintenance)]

BybitCalculateTotalNotionalValue(positions) ==
    RoundDiv(Sum([i \in 1..Len(positions) |-> positions[i].size * positions[i].markPrice]),
             1000)

BybitAccountSummary(equity, maintenance, positions) ==
    LET totalNotionalValue == BybitCalculateTotalNotionalValue(positions)
        weightedLeverageSum ==
            Sum([i \in 1..Len(positions) |->
                    positions[i].leverage * positions[i].notionalValue])
    IN
    [totalNotionalValue |-> totalNotionalValue,
     accountLeverage |->
         IF Len(positions) > 0 /\ totalNotionalValue > 0
         THEN RoundDiv(weightedLeverageSum, totalNotionalValue)
         ELSE 0,
     openPositionsCount |-> Len(positions),
     accountMarginRatio |->
         IF equity > 0 THEN PercentOf(maintenance, equity) ELSE Finite(0),
     liquidationBuffer |-> LiquidationBuffer(equity, maintenance)]

\* the ExchangeData built by getExchangeData of the client registered for k
ExchangeDataOf(in) ==
    IF in.variant[1] = "binance"
    THEN LET positions == BinanceProcessPositions(in.variant[2], in.raws) IN
         [positions |-> positions,
          accountSummary |->
              BinanceProcessAccountSummary(in.variant[2], in.equity, in.maintenance,
                                           positions)]
    ELSE LET positions == BybitProcessPositions(in.raws) IN
         [positions |-> positions,
          accountSummary |-> BybitAccountSummary(in.equity, in.maintenance, positions)]

\* responses of the exchange to one client
InitCalc ==
    /\ now = StartTime
    /\ pc = "tick"
    /\ idx = 1
    /\ exchangeClients = [k \in Keys |-> ClientClass(k)]
    /\ lastValidData = [k \in Keys |-> DefaultData]
    /\ exchanges = [k \in Keys |-> <<>>]
    /\ currentExchange = "binance"
    /\ currentAccount = "futures"
    /\ lastFetchTimes = [k \in Keys |-> Undefined]
    /\ errorCounts = [k \in Keys |-> Undefined]
    /\ backoffTimes = [k \in Keys |-> Undefined]
    /\ inflight = {}
    /\ event = Ev("start", NoKey, "", <<>>)
    /\ requests = [r \in SubRequests |-> "unsent"]
    /\ clientPc = "idle"
    /\ input \in [variant : Keys,
                   raws : SeqsUpTo(RawPositions, MaxPositions)
                              \cup {<<r>> : r \in DetailedPositions},
                   equity : Equities, maintenance : MaintenanceMargins]
    /\ output = <<>>
    /\ WsInit

\* the responses are normalised
NormalizeData ==
    /\ output = <<>>
    /\ output' = <<ExchangeDataOf(input)>>
    /\ event' = Ev("normalized", input.variant, "ok", <<>>)
    /\ UNCHANGED <<schedVars, lastValidData, clientVars, input, wsVars>>

NextCalc == NormalizeData

SpecCalc == InitCalc /\ [][NextCalc]_vars

----
\* The set-current route and the queries on a filled cache: the state after
\* startDataFetcher fetched every key once with success.

InitHttp ==
    /\ now = StartTime
    /\ pc = "running"
    /\ idx = Len(KeyOrder)
    /\ exchangeClients = [k \in Keys |-> ClientClass(k)]
    /\ \E p \in [Keys -> Payloads] :
        /\ exchanges = [k \in Keys |-> <<FreshData(p[k])>>]
        /\ lastValidData = [k \in Keys |-> FreshData(p[k])]
    /\ currentExchange = "binance"
    /\ currentAccount = "futures"
    /\ lastFetchTimes = [k \in Keys |-> StartTime]
    /\ errorCounts = [k \in Keys |-> 0]
    /\ backoffTimes = [k \in Keys |-> 0]
    /\ inflight = {}
    /\ event = Ev("start", NoKey, "", <<>>)
    /\ requests = [r \in SubRequests |-> "unsent"]
    /\ clientPc = "idle"
    /\ input = NoInput
    /\ output = <<>>
    /\ WsInit

NextHttp ==
    \/ SetCurrentRoute
    \/ RouterQuery
    \/ AppQuery

SpecHttp == InitHttp /\ [][NextHttp]_vars

----
\* WebSocketService (services/websocket.service.ts).  A reconnect creates a
\* new WebSocket object and leaves the handlers of the old one in place, so an
\* exchange can have several sockets and several reconnect timers at a time.

MAX_RECONNECT_ATTEMPTS == 5

\* sockets of one exchange that exist
SocketCount(x) == sockets[x].connecting + sockets[x].open

SocketStates == {"connecting", "open"}

\* the limit not tested
handleReconnect_NoLimit(x, t) ==
    /\ reconnectAttempts' = [reconnectAttempts EXCEPT ![x] = @ + 1]
    /\ timers' = [t EXCEPT ![x] = @ + 1]

\* handleReconnect(x), t being the pending timers before the call
handleReconnect(x, t) ==
    IF reconnectAttempts[x] >= MAX_RECONNECT_ATTEMPTS
    THEN /\ reconnectAttempts' = reconnectAttempts
         /\ timers' = t
    ELSE /\ reconnectAttempts' = [reconnectAttempts EXCEPT ![x] = @ + 1]
         /\ timers' = [t EXCEPT ![x] = @ + 1]

\* initializeBinanceWebSocket / initializeBybitWebSocket, t being the pending
\* timers at the call: the socket is created and its handlers registered, or
\* (Binance) the listen-key request fails and the catch calls handleReconnect
InitializeWebSocket(x, t) ==
    \/ /\ SocketCount(x) < MaxSockets
       /\ sockets' = [sockets EXCEPT ![x].connecting = @ + 1]
       /\ keepAlive' = (keepAlive \/ x = "binance")
       /\ reconnectAttempts' = reconnectAttempts
       /\ timers' = t
       /\ event' = Ev("wsInitialized", <<x, "">>, "ok", <<>>)
    \/ /\ x = "binance"
       /\ handleReconnect(x, t)
       /\ event' = Ev("wsInitialized", <<x, "">>, "error", <<>>)
       /\ UNCHANGED <<sockets, keepAlive>>

\* connect(): initializeWebSockets awaits the two initialisations in turn
WsConnect ==
    /\ wsPc \in WsExchanges
    /\ InitializeWebSocket(wsPc, timers)
    /\ wsPc' = IF wsPc = "binance" THEN "bybit" ELSE "done"
    /\ UNCHANGED <<schedVars, lastValidData, clientVars, calcVars>>

\* the setTimeout callback of handleReconnect
ReconnectTimer ==
    /\ \E x \in WsExchanges :
        /\ timers[x] > 0
        /\ InitializeWebSocket(x, [timers EXCEPT ![x] = @ - 1])
    /\ UNCHANGED <<wsPc, schedVars, lastValidData, clientVars, calcVars>>

\* the 'open' handler of a socket
OnOpen ==
    /\ \E x \in WsExchanges :
        /\ sockets[x].connecting > 0
        /\ sockets' = [sockets EXCEPT ![x].connecting = @ - 1, ![x].open = @ + 1]
        /\ reconnectAttempts' = [reconnectAttempts EXCEPT ![x] = 0]
        /\ event' = Ev("wsOpen", <<x, "">>, "", <<>>)
    /\ UNCHANGED <<timers, keepAlive, wsPc, schedVars, lastValidData, clientVars, calcVars>>

\* the 'close' handler of a socket
OnClose ==
    /\ \E x \in WsExchanges, st \in SocketStates :
        /\ sockets[x][st] > 0
        /\ timers[x] < MaxTimers
        /\ sockets' = [sockets EXCEPT ![x][st] = @ - 1]
        /\ handleReconnect(x, timers)
        /\ event' = Ev("wsClose", <<x, "">>, st, <<>>)
    /\ UNCHANGED <<keepAlive, wsPc, schedVars, lastValidData, clientVars, calcVars>>

\* the 'error' handler of a socket: Binance reconnects, Bybit only logs
OnError ==
    /\ \E x \in WsExchanges :
        /\ SocketCount(x) > 0
        /\ timers[x] < MaxTimers
        /\ IF x = "binance"
           THEN handleReconnect(x, timers)
           ELSE UNCHANGED <<reconnectAttempts, timers>>
        /\ event' = Ev("wsError", <<x, "">>, "", <<>>)
    /\ UNCHANGED <<sockets, keepAlive, wsPc, schedVars, lastValidData, clientVars, calcVars>>

\* the keep-alive interval of the Binance listen key, its request failing
KeepAliveFailure ==
    /\ keepAlive
    /\ timers["binance"] < MaxTimers
    /\ handleReconnect("binance", timers)
    /\ event' = Ev("wsKeepAlive", <<"binance", "">>, "error", <<>>)
    /\ UNCHANGED <<sockets, keepAlive, wsPc, schedVars, lastValidData, clientVars, calcVars>>

NextWs ==
    \/ WsConnect
    \/ ReconnectTimer
    \/ OnOpen
    \/ OnClose
    \/ OnError
    \/ KeepAliveFailure

SpecWs == Init /\ [][NextWs]_vars

----
\* Claims

\* the fetch of k completed in this step
Completed(k) == k \in inflight /\ k \notin inflight'

\* C1: whenever a fetch for a key fails (a sub-request of the exchange client
\* fails), that tick increments the key's consecutive error count by exactly one.
C1_FailureIncrementsErrorCount ==
    [][\A k \in Keys :
          (Completed(k) /\ event'.res = "fail")
              => OrZero(errorCounts'[k]) = OrZero(errorCounts[k]) + 1]_vars

\* C2 as stated: after a failure that brings the error count to n, no backoff
\* for n < 5, now + 60s at n = 5, now + 120s at n = 6, doubling, and 960s, the
\* cap, from n = 10 on.
C2_Original ==
    \A k \in Keys :
        (event.op = "rejected" /\ event.key = k) =>
            /\ errorCounts[k] < 5 => backoffTimes[k] \in {Undefined, 0}
            /\ errorCounts[k] = 5 => backoffTimes[k] = now + 60000
            /\ errorCounts[k] = 6 => backoffTimes[k] = now + 120000
            /\ errorCounts[k] >= 10 => backoffTimes[k] = now + 960000

\* C2 amended: after a failure that brings the error count to n, backoffUntil
\* is not set for n < 5 (the next tick attempts the key), and is now + 60s,
\* 120s, 240s, 480s, 960s at n = 5..9 and now + 1920s, the cap, from n = 10 on.
C2_BackoffSchedule ==
    \A k \in Keys :
        (event.op = "rejected" /\ event.key = k) =>
            /\ errorCounts[k] = event.n + 1
            /\ errorCounts[k] < 5 => backoffTimes[k] \in {Undefined, 0}
            /\ errorCounts[k] = 5 => backoffTimes[k] = now + 60000
            /\ errorCounts[k] = 6 => backoffTimes[k] = now + 120000
            /\ errorCounts[k] = 7 => backoffTimes[k] = now + 240000
            /\ errorCounts[k] = 8 => backoffTimes[k] = now + 480000
            /\ errorCounts[k] = 9 => backoffTimes[k] = now + 960000
            /\ errorCounts[k] >= 10 => backoffTimes[k] = now + 1920000

\* an 11th consecutive failure, one past the cap
C2_Witness ==
    \E k \in Keys :
        /\ event.op = "rejected"
        /\ event.key = k
        /\ errorCounts[k] = 11
        /\ backoffTimes[k] = now + 1920000

\* C3: a successful fetch, whatever the prior error count or backoff, writes
\* the new ExchangeData to the key's cache entry, sets its error count to 0
\* and clears its backoff, so the key is not in backoff afterwards.
C3_SuccessResets ==
    \A k \in Keys :
        (event.op = "resolved" /\ event.key = k /\ event.res = "ok") =>
            /\ exchanges[k] = <<[positions |-> event.rows, summary |-> event.rows[1]]>>
            /\ errorCounts[k] = 0
            /\ backoffTimes[k] = 0
            /\ ~(backoffTimes[k] > now)

\* a success that ends a streak of failures long enough to have set a backoff
C3_Witness ==
    \E k \in Keys :
        /\ event.op = "resolved"
        /\ event.key = k
        /\ event.res = "ok"
        /\ event.n >= 6
        /\ exchanges[k] = <<FreshData(2)>>

\* C4: a tick for a key with now < backoffUntil skips the key: the client is
\* not invoked and the key's cache entry, lastFetch, error count and
\* backoffUntil are unchanged; a tick with now >= backoffUntil attempts the fetch.
C4_BackoffSkip ==
    [][\A k \in Keys :
          (event'.key = k /\ event'.op \in {"skip", "fetching"}) =>
              IF backoffTimes[k] > now
              THEN /\ event'.op = "skip"
                   /\ inflight' = inflight
                   /\ exchanges'[k] = exchanges[k]
                   /\ lastFetchTimes'[k] = lastFetchTimes[k]
                   /\ errorCounts'[k] = errorCounts[k]
                   /\ backoffTimes'[k] = backoffTimes[k]
              ELSE /\ event'.op = "fetching"
                   /\ k \in inflight']_vars

\* a key with a cached snapshot skipped inside its backoff window
C4_Witness ==
    \E k \in Keys :
        /\ event.op = "skip"
        /\ event.key = k
        /\ backoffTimes[k] > now
        /\ errorCounts[k] >= 5
        /\ exchanges[k] # <<>>

\* C5: a failed fetch cycle for a key leaves the key's cache entry, present
\* or absent, exactly as it was: no write to the cache during a failed cycle.
C5_FailureLeavesCache ==
    [][\A k \in Keys :
          (Completed(k) /\ event'.res = "fail") => exchanges'[k] = exchanges[k]]_vars

\* C6: once a key has had a successful fetch, its cache entry is non-null and
\* holds the ExchangeData of the most recent successful fetch in every later
\* state: a successful fetch stores its data, and no other step changes an
\* entry that holds the data of a successful fetch.
C6_LastGoodPreserved ==
    [][\A k \in Keys :
          IF Completed(k) /\ event'.res = "ok"
          THEN exchanges'[k] = <<[positions |-> event'.rows, summary |-> event'.rows[1]]>>
          ELSE (\E v \in Payloads : exchanges[k] = <<[positions |-> <<v>>, summary |-> v]>>)
                   => exchanges'[k] = exchanges[k]]_vars

\* C7: once the scheduler is started and a fetch cycle has completed, every
\* key is eventually attempted on another tick.
C7_Periodic ==
    \A k \in Keys :
        (pc = "running") ~> (event.key = k /\ event.op \in {"fetching", "skip"})

\* C8: within a cycle the keys are fetched independently: while the fetch of
\* one key is awaited, the fetch of any key still due in the cycle can start.
C8_Independent ==
    \A j \in Keys, k \in Keys :
        (/\ j \in inflight
         /\ pc = "fetch"
         /\ \E i \in (idx + 1)..Len(KeyOrder) : KeyOrder[i] = k)
            => ENABLED FetchCall(k)

\* C9: setCurrentExchangeAndAccount with an exchange that is not available,
\* or an account that is not one of that exchange's accounts, fails and leaves
\* currentExchange, currentAccount and the rest of the cached state unchanged.
C9_InvalidSelectionRejected ==
    [][(/\ event'.op = "setCurrent"
        /\ event'.key \notin {<<"binance", "futures">>, <<"binance", "portfolioMargin">>,
                              <<"bybit", "unified">>})
           => /\ event'.res = "error"
              /\ UNCHANGED <<currentExchange, currentAccount, exchanges, lastFetchTimes,
                             errorCounts, backoffTimes>>]_vars

\* a known exchange with an account of the other exchange, refused while the
\* selection is not the initial one
C9_Witness ==
    /\ event.op = "setCurrent"
    /\ event.key = <<"binance", "unified">>
    /\ event.res = "error"
    /\ currentExchange = "bybit"
    /\ currentAccount = "unified"

\* C10: a successful setCurrentExchangeAndAccount(e, a) updates both pointers
\* in one step, and a positions query that omits exchange and account is
\* answered from the cache entry of the selected (e, a).
C10_SelectionIsQueryDefault ==
    [][/\ (event'.op = "setCurrent" /\ event'.res = "ok")
           => <<currentExchange', currentAccount'>> = event'.key
       /\ (/\ event'.op \in {"routerQuery", "appQuery"}
           /\ event'.key = <<Omitted, Omitted>>
           /\ <<currentExchange, currentAccount>> # <<"binance", "futures">>)
           => event'.rows =
                 IF exchanges[<<currentExchange, currentAccount>>] = <<>>
                 THEN <<>>
                 ELSE exchanges[<<currentExchange, currentAccount>>][1].positions]_vars

\* C11: if initialize() of one client fails during the registration, that
\* client and every client after it in the registration order are never
\* registered, startDataFetcher rejects before any fetch is attempted (no key
\* is ever fetched, also not those registered before the failure), and the
\* process keeps running: requests are still answered.
C11_InitFailureAborts ==
    [][/\ (event'.op = "initialized" /\ event'.res = "error")
           => /\ pc' = "failed"
              /\ \A i \in 1..Len(KeyOrder) :
                     KeyOrder[i] = event'.key
                         => \A j \in i..Len(KeyOrder) :
                                exchangeClients'[KeyOrder[j]] = NoClient
       /\ pc = "failed"
           => /\ pc' = "failed"
              /\ exchangeClients' = exchangeClients
              /\ inflight' = {}
              /\ event'.op \in {"setCurrent", "routerQuery", "appQuery", "clock"}
              /\ \A k \in Keys : exchanges'[k] = <<>> /\ lastFetchTimes'[k] = Undefined
              /\ ENABLED RouterQuery
              /\ ENABLED SetCurrent]_vars

\* the third initialize() failed after two registrations, and a query is
\* answered afterwards
C11_Witness ==
    /\ pc = "failed"
    /\ idx = 3
    /\ exchangeClients[KeyOrder[1]] # NoClient
    /\ exchangeClients[KeyOrder[2]] # NoClient
    /\ exchangeClients[KeyOrder[3]] = NoClient
    /\ event.op = "routerQuery"

\* C12: the client's snapshot fetch fails as a unit: if any one of the calls
\* it issues fails (a signed request, the funding rates, a balance or price
\* lookup), the fetch reports failure to its caller and returns no
\* ExchangeData, so nothing is stored for the key in that step.
C12_FetchFailsAsUnit ==
    [][\A k \in Keys :
          (Completed(k) /\ event'.res \in {"fail", "auxfail"})
              => /\ event'.op = "rejected"
                 /\ exchanges'[k] = exchanges[k]]_vars

\* C13: a response of the exchange that is missing expected fields, so that
\* normalizing the positions raises an error, is treated as a fetch failure:
\* the key's error count is incremented and the cached snapshot is not
\* replaced by one computed from the malformed response.
C13_MalformedIsFailure ==
    [][\A k \in Keys :
          (Completed(k) /\ event'.res = "badshape")
              => /\ OrZero(errorCounts'[k]) = OrZero(errorCounts[k]) + 1
                 /\ exchanges'[k] = exchanges[k]]_vars

\* C14: within one key's fetch the sub-requests for account info, positions,
\* open orders and funding rates are all issued concurrently: none of them is
\* sent after another of them has completed; and normalization starts only
\* after every one of them has completed.
C14_ConcurrentFanOut ==
    [][/\ \A r \in SubRequests, q \in SubRequests :
              (requests[r] = "unsent" /\ requests'[r] = "pending")
                  => requests[q] \in {"unsent", "pending"}
       /\ event'.op = "normalized"
              => \A r \in SubRequests : requests[r] \in {"done", "failed"}]_vars

\* C15: getHealthStatus reports, for each registered key and only for those,
\* healthy = (lastFetch > 0 and now - lastFetch < 300s) and inBackoff =
\* (backoffUntil > now): a key last fetched 400s ago is unhealthy, a key last
\* fetched 10s ago with no backoff is healthy and not in backoff, a key never
\* fetched is unhealthy with error count 0; the call changes no scheduler or
\* cache state.
C15_HealthView ==
    [][event'.op = "health" =>
          /\ DOMAIN event'.rows = {k \in Keys : exchangeClients[k] # NoClient}
          /\ \A k \in DOMAIN event'.rows :
                LET h == event'.rows[k] IN
                /\ h.healthy = (lastFetchTimes[k] > 0 /\ now - lastFetchTimes[k] < 300000)
                /\ h.inBackoff = (backoffTimes[k] > now)
                /\ lastFetchTimes[k] = now - 400000 => ~h.healthy
                /\ (lastFetchTimes[k] = now - 10000 /\ backoffTimes[k] \in {Undefined, 0})
                       => (h.healthy /\ ~h.inBackoff)
                /\ (lastFetchTimes[k] = Undefined /\ errorCounts[k] = Undefined)
                       => (~h.healthy /\ h.errorCount = 0)
          /\ UNCHANGED <<now, exchangeClients, lastValidData, exchanges, currentExchange,
                         currentAccount, lastFetchTimes, errorCounts, backoffTimes, inflight>>]_vars

\* one view of three keys: fetched 400s ago, fetched 10s ago, never fetched
C15_Witness ==
    /\ event.op = "health"
    /\ DOMAIN event.rows = Keys
    /\ lastFetchTimes[KeyOrder[1]] = now - 400000
    /\ ~event.rows[KeyOrder[1]].healthy
    /\ lastFetchTimes[KeyOrder[2]] = now - 10000
    /\ event.rows[KeyOrder[2]].healthy
    /\ ~event.rows[KeyOrder[2]].inBackoff
    /\ lastFetchTimes[KeyOrder[3]] = Undefined
    /\ event.rows[KeyOrder[3]].errorCount = 0

\* C16: writing the result of a fetch for a key replaces only that key's
\* entry: the cache entries, lastFetch timestamps, error counts and backoff
\* times of every other key, and currentExchange and currentAccount, are
\* unchanged by the step that completes the fetch, whatever was fetched or
\* selected before (the available sets are never assigned).
C16_WriteFrame ==
    [][\A k \in Keys :
          Completed(k) =>
              /\ \A j \in Keys \ {k} :
                    /\ exchanges'[j] = exchanges[j]
                    /\ lastFetchTimes'[j] = lastFetchTimes[j]
                    /\ errorCounts'[j] = errorCounts[j]
                    /\ backoffTimes'[j] = backoffTimes[j]
              /\ currentExchange' = currentExchange
              /\ currentAccount' = currentAccount]_vars

\* the second Binance account written while the first has its snapshot and
\* the selection has been moved to Bybit
C16_Witness ==
    /\ event.op = "resolved"
    /\ event.key = KeyOrder[2]
    /\ event.res = "ok"
    /\ exchanges[KeyOrder[2]] = <<FreshData(2)>>
    /\ exchanges[KeyOrder[1]] = <<FreshData(1)>>
    /\ lastFetchTimes[KeyOrder[1]] < lastFetchTimes[KeyOrder[2]]
    /\ currentExchange = "bybit"
    /\ currentAccount = "unified"

\* the summary and the positions of the data just computed
Summary == output[1].accountSummary
Positions == output[1].positions

\* C17: in every AccountSummary of every client variant, liquidationBuffer
\* lies in [0, 100] for all non-negative equity and maintenance margin: 0 when
\* the maintenance margin is 0, at most 100 for large equity, not negative
\* when the equity is below the maintenance margin.
C17_BufferInRange ==
    output # <<>> =>
        /\ Summary.liquidationBuffer >= 0
        /\ Summary.liquidationBuffer <= 10000
        /\ input.maintenance = 0 => Summary.liquidationBuffer = 0

\* C18: in every AccountSummary of every client variant, accountMarginRatio
\* is maintenanceMargin / equity x 100 when equity > 0 and exactly 0 when
\* equity <= 0; no NaN or infinite value is stored.
C18_MarginRatioGuarded ==
    output # <<>> =>
        /\ Summary.accountMarginRatio.kind = "finite"
        /\ input.equity > 0
              => Summary.accountMarginRatio.value
                     = RoundDiv(input.maintenance * 10000, input.equity)
        /\ input.equity <= 0 => Summary.accountMarginRatio.value = 0

\* C19: in every AccountSummary of every client variant, accountLeverage is 0
\* when the position list is empty and otherwise the notional-weighted mean of
\* the positions' leverage, sum(leverage x notional) / sum(notional), to the
\* hundredth.
C19_WeightedLeverage ==
    output # <<>> =>
        LET notional == Sum([i \in 1..Len(Positions) |-> Positions[i].notionalValue])
            weighted == Sum([i \in 1..Len(Positions) |->
                               Positions[i].leverage * Positions[i].notionalValue])
        IN
        /\ Len(Positions) = 0 => Summary.accountLeverage = 0
        /\ notional > 0
              => Abs(Summary.accountLeverage - RoundDiv(weighted, notional)) <= 1

\* C20: every normalized Position, LONG or SHORT, has notionalValue >= 0, and
\* totalNotionalValue is the sum over the positions of |size x markPrice|, to
\* a hundredth per position, so short positions never reduce it.
C20_NotionalNonNegative ==
    output # <<>> =>
        /\ \A i \in 1..Len(Positions) : Positions[i].notionalValue >= 0
        /\ Abs(Summary.totalNotionalValue
                - Sum([i \in 1..Len(Positions) |->
                         RoundDiv(Positions[i].size * Positions[i].markPrice, 1000)]))
               <= Len(Positions)

\* every raw record has a non-zero amount: the positions computed correspond
\* one to one to the raw records, in every client variant
AllNonZero ==
    /\ \A i \in 1..Len(input.raws) : IsNonZero(input.raws[i])
    /\ Len(Positions) = Len(input.raws)

\* was the liquidation price of position i computed by the client?
Estimated(i) ==
    \/ input.variant[1] = "bybit"
    \/ input.variant[2] = "portfolioMargin" /\ NoSourceLiquidationPrice(input.raws[i])

\* C21: only raw position records with non-zero size yield a normalized
\* Position: a raw record of size 0 produces no entry in positions and is not
\* counted in openPositionsCount, in every client variant.
C21_ZeroSizeDropped ==
    output # <<>> =>
        /\ Len(Positions) = Len(SelectSeq(input.raws, IsNonZero))
        /\ Summary.openPositionsCount = Len(SelectSeq(input.raws, IsNonZero))

\* C22: the side of every normalized Position is LONG iff the raw signed size
\* is positive and SHORT iff it is negative, and its size is the magnitude of
\* the raw size (to the hundredth), so every emitted position has size > 0.
C22_SideFromSign ==
    (output # <<>> /\ AllNonZero) =>
        \A i \in 1..Len(Positions) :
            /\ Positions[i].side = "LONG" <=> input.raws[i].amt > 0
            /\ Positions[i].side = "SHORT" <=> input.raws[i].amt < 0
            /\ Abs(Positions[i].size - Abs(input.raws[i].amt)) <= 5
            /\ Positions[i].size > 0

\* C23: in every client variant, a source liquidation price at or above the
\* epsilon 0.001 is the normalized liquidationPrice; when the source gives 0
\* or less than the epsilon, the normalized liquidationPrice is the non-zero
\* estimate markPrice x (1 +/- (1/leverage + maintenanceMarginRatio)), with
\* or without the additional buffer of the combined-margin account.
C23_LiquidationPriceSource ==
    (output # <<>> /\ AllNonZero) =>
        \A i \in 1..Len(Positions) :
            LET raw == input.raws[i]
                up == 1013 * raw.lev + 100000
                down == 987 * raw.lev - 100000
            IN
            IF ~NoSourceLiquidationPrice(raw)
            THEN Positions[i].liquidationPrice = raw.liq
            ELSE /\ Positions[i].liquidationPrice # 0
                 /\ Positions[i].liquidationPrice \in
                        IF raw.amt < 0
                        THEN {RoundRatio(up, 1000 * raw.lev, raw.mark),
                              RoundRatio(up + 5 * raw.lev, 1000 * raw.lev, raw.mark)}
                        ELSE {RoundRatio(down, 1000 * raw.lev, raw.mark),
                              RoundRatio(down - 5 * raw.lev, 1000 * raw.lev, raw.mark)}

\* C24: for every position with leverage > 0 and markPrice > 0 whose
\* liquidation price is estimated, the estimate is strictly below markPrice
\* when the normalized side is LONG and strictly above it when SHORT.
C24_EstimateOnCorrectSide ==
    (output # <<>> /\ AllNonZero) =>
        \A i \in 1..Len(Positions) :
            Estimated(i) =>
                /\ Positions[i].side = "LONG"
                      => Positions[i].liquidationPrice < Positions[i].markPrice
                /\ Positions[i].side = "SHORT"
                      => Positions[i].liquidationPrice > Positions[i].markPrice

\* C25: for every normalized Position of every client variant,
\* liquidationPriceChangePercent is |markPrice - liquidationPrice| / markPrice
\* x 100 (within the rounding of the price and of the percentage), hence >= 0,
\* and it is 0 when liquidationPrice is 0.
C25_DistanceNonNegative ==
    (output # <<>> /\ AllNonZero) =>
        \A i \in 1..Len(Positions) :
            LET pos == Positions[i] IN
            /\ pos.liquidationPriceChangePercent >= 0
            /\ pos.liquidationPrice = 0 => pos.liquidationPriceChangePercent = 0
            /\ pos.liquidationPrice # 0
                  => Abs(pos.liquidationPriceChangePercent
                         - RoundRatio(Abs(pos.markPrice - pos.liquidationPrice),
                                      pos.markPrice, 10000)) <= 3

\* C26: marginMode of a normalized Position is CROSS when the native flag says
\* cross, ISOLATED when it says isolated, and CROSS for every other native
\* value, in every client variant.
C26_MarginModeDefault ==
    (output # <<>> /\ AllNonZero) =>
        \A i \in 1..Len(Positions) :
            Positions[i].marginMode =
                IF input.raws[i].margin = "isolated" THEN "ISOLATED" ELSE "CROSS"

\* C27: the set-current route answers 400 when exchange or account is missing,
\* 404 when the pair is not an available exchange with one of its accounts
\* (never a 5xx), and 200 only with both selection pointers updated to the
\* requested pair; in the two error cases the selection is unchanged.
C27_SetCurrentRouteStatus ==
    [][event'.op = "postSetCurrent" =>
          /\ event'.res \notin {"500"}
          /\ (event'.key[1] = Omitted \/ event'.key[2] = Omitted)
                => /\ event'.res = "400"
                   /\ UNCHANGED <<currentExchange, currentAccount>>
          /\ (/\ event'.key[1] # Omitted
              /\ event'.key[2] # Omitted
              /\ event'.key \notin Keys)
                => /\ event'.res = "404"
                   /\ UNCHANGED <<currentExchange, currentAccount>>
          /\ event'.res = "200" => <<currentExchange', currentAccount'>> = event'.key]_vars

\* C28: the lastFetch timestamp of a key changes only in a tick in which the
\* exchange client obtained fresh data: it stays unchanged across a fetch whose
\* requests to the exchange failed.
C28_LastFetchOnlyOnFreshData ==
    [][\A k \in Keys :
          lastFetchTimes'[k] # lastFetchTimes[k]
              => (Completed(k) /\ event'.res # "fail")]_vars

\* C29: in every reachable state currentExchange is an available exchange and
\* currentAccount is one of the accounts of that exchange.
C29_SelectionAvailable ==
    /\ currentExchange \in availableExchanges
    /\ currentAccount \in availableAccounts[currentExchange]

\* an invalid call refused after a valid change of the selection and a
\* completed fetch of the selected key
C29_Witness ==
    /\ event.op = "setCurrent"
    /\ event.key = <<"bybit", "futures">>
    /\ event.res = "error"
    /\ <<currentExchange, currentAccount>> = <<"bybit", "unified">>
    /\ exchanges[<<"bybit", "unified">>] # <<>>

====
